---- MODULE Spec2Model ----
(***************************************************************************)
(* Model of neo::buffer_copy (src/src/neo/buffer_algorithm/copy.hpp) over  *)
(* a flat byte memory.  A buffer view is a record [data, size]: data is    *)
(* the address of its first byte, size its length (buffer_base.hpp).  A    *)
(* buffer sequence is a sequence of views; a sequence iterator is an index *)
(* into it, the end iterator being Len + 1.                                *)
(***************************************************************************)
EXTENDS Integers, Sequences, FiniteSets, TLC

\* ------------------------------------------------------------------ bounds
\* the most views a source sequence and a destination sequence have, the
\* largest size of a view in a sequence, and the largest max_copy
MaxSrcViews == 3
MaxDestViews == 2
MaxSize == 2
MaxCopy == 6

\* the source views lie in [0, SrcRegion), the destination views above them
SrcRegion == MaxSrcViews * (MaxSize + 1)
DestRegion == MaxDestViews * (MaxSize + 1)
MemSize == SrcRegion + DestRegion
Addr == 0 .. (MemSize - 1)

Min(a, b) == IF a < b THEN a ELSE b

\* ------------------------------------------------------------- buffer views
View(p, n) == [data |-> p, size |-> n]

\* buffer_base::remove_prefix: the precondition of its assert
RemovePrefixOk(buf, n) == n <= buf.size

\* buffer_base::remove_prefix / operator+ : drop the first n bytes
RemovePrefix(buf, n) == View(buf.data + n, buf.size - n)

\* ----------------------------------------------------- bounded pairwise copy
\* mutation: the maximum is left out of the minimum
NToCopy_IgnoreMax(src_size, dest_size, max) == Min(src_size, dest_size)

\* mutation: the destination size is left out of the minimum
NToCopy_IgnoreDest(src_size, dest_size, max) == Min(src_size, max)

\* n_to_copy = min(src.size(), min(dest.size(), max_copy))
NToCopy(src_size, dest_size, max) == Min(src_size, Min(dest_size, max))

\* mutation: the input pointer is never incremented
RECURSIVE CopyBytes_NoInAdvance(_, _, _, _)
CopyBytes_NoInAdvance(m, out, in, r) ==
    IF r = 0 THEN m
    ELSE CopyBytes_NoInAdvance([m EXCEPT ![out] = m[in]], out + 1, in, r - 1)

\* mutation: the input pointer is incremented before it is read
RECURSIVE CopyBytes_PreIncrement(_, _, _, _)
CopyBytes_PreIncrement(m, out, in, r) ==
    IF r = 0 THEN m
    ELSE CopyBytes_PreIncrement([m EXCEPT ![out] = m[in + 1]], out + 1, in + 1, r - 1)

\* for (r = n_to_copy; r; --r, ++in, ++out) *out = *in;
RECURSIVE CopyBytes(_, _, _, _)
CopyBytes(m, out, in, r) ==
    IF r = 0 THEN m
    ELSE CopyBytes([m EXCEPT ![out] = m[in]], out + 1, in + 1, r - 1)

\* buffer_copy(mutable_buffer dest, const_buffer src, size_t max_copy)
BufferCopyPair(m, dest_buf, src_buf, max) ==
    LET n_to_copy == NToCopy(src_buf.size, dest_buf.size, max)
    IN  [mem |-> CopyBytes(m, dest_buf.data, src_buf.data, n_to_copy),
         n   |-> n_to_copy]

\* ------------------------------------------------------ sequence copy engine
\* mutation: the loop does not test the remaining quota
WhileCond_NoQuota(d, s, st) ==
    /\ st.dest_iter # Len(d) + 1
    /\ st.src_iter # Len(s) + 1

\* while (dest_iter != dest_stop && src_iter != src_stop && remaining_to_copy)
WhileCond(d, s, st) ==
    /\ st.dest_iter # Len(d) + 1
    /\ st.src_iter # Len(s) + 1
    /\ st.remaining_to_copy # 0

\* the locals right after lines 46-59
InitLocals(m, max) ==
    [mem |-> m, remaining_to_copy |-> max, total_copied |-> 0,
     dest_iter |-> 1, src_iter |-> 1, src_offset |-> 0, dest_offset |-> 0,
     asserted |-> FALSE]

\* mutation: the quota is not decremented
NextRemaining_NoDecrement(rem, n_copied) == rem

\* mutation: a step that copied nothing gives up the rest of the quota
NextRemaining_BreakOnZero(rem, n_copied) == IF n_copied = 0 THEN 0 ELSE rem - n_copied

\* remaining_to_copy -= n_copied
NextRemaining(rem, n_copied) == rem - n_copied

\* mutation: a source buffer counts as exhausted only after a non-empty copy
SrcExhausted_OnlyIfCopied(src_buf, n_copied) == n_copied # 0 /\ src_buf.size = n_copied

\* mutation: < in place of ==
SrcExhausted_Less(src_buf, n_copied) == src_buf.size < n_copied

\* if (src_buf.size() == n_copied)
SrcExhausted(src_buf, n_copied) == src_buf.size = n_copied

\* mutation: >= in place of ==
DestExhausted_AtLeast(dest_buf, n_copied) == dest_buf.size >= n_copied

\* if (dest_buf.size() == n_copied)
DestExhausted(dest_buf, n_copied) == dest_buf.size = n_copied

\* mutation: the offset is not set back to zero when the iterator advances
NextOffset_NoReset(offset, n_copied, exhausted) == offset + n_copied

\* offset += n_copied; and offset = 0 when the buffer is exhausted
NextOffset(offset, n_copied, exhausted) == IF exhausted THEN 0 ELSE offset + n_copied

\* ++iter when the buffer is exhausted
NextIter(iter, exhausted) == IF exhausted THEN iter + 1 ELSE iter

\* one iteration of the while loop, lines 63-86
Body(d, s, st) ==
    LET sv == s[st.src_iter]
        dv == d[st.dest_iter]
    IN  IF ~(RemovePrefixOk(sv, st.src_offset) /\ RemovePrefixOk(dv, st.dest_offset))
        THEN [st EXCEPT !.asserted = TRUE]
        ELSE
        LET src_buf  == RemovePrefix(sv, st.src_offset)
            dest_buf == RemovePrefix(dv, st.dest_offset)
            r        == BufferCopyPair(st.mem, dest_buf, src_buf, st.remaining_to_copy)
            n_copied == r.n
            src_adv  == SrcExhausted(src_buf, n_copied)
            dest_adv == DestExhausted(dest_buf, n_copied)
        IN  [mem               |-> r.mem,
             remaining_to_copy |-> NextRemaining(st.remaining_to_copy, n_copied),
             total_copied      |-> st.total_copied + n_copied,
             src_iter          |-> NextIter(st.src_iter, src_adv),
             src_offset        |-> NextOffset(st.src_offset, n_copied, src_adv),
             dest_iter         |-> NextIter(st.dest_iter, dest_adv),
             dest_offset       |-> NextOffset(st.dest_offset, n_copied, dest_adv),
             asserted          |-> FALSE]

\* the whole loop, run to its exit
RECURSIVE RunLoop(_, _, _)
RunLoop(d, s, st) ==
    IF WhileCond(d, s, st)
    THEN LET t == Body(d, s, st) IN IF t.asserted THEN t ELSE RunLoop(d, s, t)
    ELSE st

\* buffer_copy(dest, src, max_copy) as a function of the memory
SeqCopy(m, d, s, max) == RunLoop(d, s, InitLocals(m, max))

\* ---------------------------------------------------- exhaustive entry point
\* buffer_size(seq): the sum of size() over the views of the sequence
RECURSIVE buffer_size(_)
buffer_size(seq) ==
    IF seq = << >> THEN 0 ELSE Head(seq).size + buffer_size(Tail(seq))

\* min_size = (src_size > dest_size) ? dest_size : src_size
MinSize(src_size, dest_size) == IF src_size > dest_size THEN dest_size ELSE src_size

\* ------------------------------------------------------------- logical bytes
ViewBytes(m, v) == [i \in 1 .. v.size |-> m[v.data + i - 1]]

RECURSIVE Stream(_, _)
Stream(m, seq) ==
    IF seq = << >> THEN << >> ELSE ViewBytes(m, Head(seq)) \o Stream(m, Tail(seq))

Take(q, n) == SubSeq(q, 1, n)

ViewAddrs(v) == {a \in Addr : v.data <= a /\ a < v.data + v.size}

SeqAddrs(seq) == UNION {ViewAddrs(seq[i]) : i \in 1 .. Len(seq)}

StripEmpty(seq) == SelectSeq(seq, LAMBDA v : v.size # 0)

\* ------------------------------------------------------------------- inputs
\* every byte of the memory differs from every other
InitMem == [a \in Addr |-> (a * 37 + 11) % 256]

\* the lists of at most n sizes drawn from Z
SizeLists(n, Z) == UNION {[1 .. k -> Z] : k \in 0 .. n}

RECURSIVE SumTo(_, _)
SumTo(sizes, k) == IF k = 0 THEN 0 ELSE sizes[k] + 1 + SumTo(sizes, k - 1)

\* views of the given sizes laid out from base upwards, one unused byte after each
PlaceUp(sizes, base) ==
    [k \in 1 .. Len(sizes) |-> View(base + SumTo(sizes, k - 1), sizes[k])]

\* the same views laid out downwards from top, so that the order of the
\* sequence is the reverse of the order of the addresses
PlaceDown(sizes, top) ==
    [k \in 1 .. Len(sizes) |-> View(top - SumTo(sizes, k), sizes[k])]

SrcSeqs == {PlaceUp(z, 0) : z \in SizeLists(MaxSrcViews, 0 .. MaxSize)}

DestSeqs == {PlaceDown(z, MemSize) : z \in SizeLists(MaxDestViews, 0 .. MaxSize)}

PairSrcs == {<<View(0, n)>> : n \in 0 .. SrcRegion}

PairDests == {<<View(SrcRegion, n)>> : n \in 0 .. DestRegion}

\* destination views that start where the source views of PairSrcs start
AliasDests == {<<View(0, n)>> : n \in 0 .. SrcRegion}

\* the inputs of the liveness specification: empty and full-size views in the
\* source, empty and one-byte views in the destination, so that empty
\* buffers are current on either side and a source buffer takes several steps
LiveSrcSeqs == {PlaceUp(z, 0) : z \in SizeLists(MaxSrcViews, {0, MaxSize})}

LiveDestSeqs == {PlaceDown(z, MemSize) : z \in SizeLists(MaxDestViews, {0, 1})}

\* -------------------------------------------------------------------- state
VARIABLES mem, dest, src, kind, max_copy, pc, ret,
          remaining_to_copy, total_copied, dest_iter, src_iter,
          src_offset, dest_offset

vars == <<mem, dest, src, kind, max_copy, pc, ret,
          remaining_to_copy, total_copied, dest_iter, src_iter,
          src_offset, dest_offset>>

locals == <<remaining_to_copy, total_copied, dest_iter, src_iter,
            src_offset, dest_offset>>

Cur ==
    [mem |-> mem, remaining_to_copy |-> remaining_to_copy,
     total_copied |-> total_copied, dest_iter |-> dest_iter,
     src_iter |-> src_iter, src_offset |-> src_offset,
     dest_offset |-> dest_offset, asserted |-> FALSE]

SetLocals(t) ==
    /\ mem' = t.mem
    /\ remaining_to_copy' = t.remaining_to_copy
    /\ total_copied' = t.total_copied
    /\ dest_iter' = t.dest_iter
    /\ src_iter' = t.src_iter
    /\ src_offset' = t.src_offset
    /\ dest_offset' = t.dest_offset

\* before the call: the memory holds its contents and no call is in progress
Init ==
    /\ mem = InitMem
    /\ kind = "none"
    /\ dest = << >> /\ src = << >>
    /\ max_copy = 0
    /\ pc = "idle"
    /\ ret = 0
    /\ remaining_to_copy = 0 /\ total_copied = 0
    /\ dest_iter = 1 /\ src_iter = 1
    /\ src_offset = 0 /\ dest_offset = 0

\* buffer_copy(mutable_buffer, const_buffer, max_copy): the single-view
\* overload, called with views from D and S and a maximum from M
PairCall(D, S, M) ==
    /\ pc = "idle"
    /\ \E d \in D, s \in S, max \in M :
          LET r == BufferCopyPair(mem, d[1], s[1], max)
          IN  /\ dest' = d /\ src' = s /\ max_copy' = max
              /\ mem' = r.mem /\ ret' = r.n
    /\ kind' = "pair"
    /\ pc' = "done"
    /\ UNCHANGED locals

\* buffer_copy(dest, src, max_copy): entry, lines 46-59
CappedCall(D, S, M) ==
    /\ pc = "idle"
    /\ \E d \in D, s \in S, max \in M :
          /\ dest' = d /\ src' = s /\ max_copy' = max
          /\ SetLocals(InitLocals(mem, max))
    /\ kind' = "capped"
    /\ pc' = "test"
    /\ UNCHANGED ret

\* buffer_copy(dest, src): computes min_size and enters the capped copy
ExhaustiveCall(D, S) ==
    /\ pc = "idle"
    /\ \E d \in D, s \in S :
          LET min_size == MinSize(buffer_size(s), buffer_size(d))
          IN  /\ dest' = d /\ src' = s /\ max_copy' = min_size
              /\ SetLocals(InitLocals(mem, min_size))
    /\ kind' = "exhaustive"
    /\ pc' = "test"
    /\ UNCHANGED ret

\* one iteration of the while loop
LoopBody ==
    /\ pc = "test"
    /\ WhileCond(dest, src, Cur)
    /\ \E t \in {Body(dest, src, Cur)} :
           /\ SetLocals(t)
           /\ pc' = IF t.asserted THEN "abort" ELSE "test"
    /\ UNCHANGED <<dest, src, kind, max_copy, ret>>

\* the loop condition fails: return total_copied
LoopExit ==
    /\ pc = "test"
    /\ ~WhileCond(dest, src, Cur)
    /\ ret' = total_copied
    /\ pc' = "done"
    /\ UNCHANGED <<mem, dest, src, kind, max_copy, locals>>

Next ==
    \/ PairCall(PairDests, PairSrcs, 0 .. MaxCopy)
    \/ PairCall(AliasDests, PairSrcs, 0 .. MaxCopy)
    \/ CappedCall(DestSeqs, SrcSeqs, 0 .. MaxCopy)
    \/ ExhaustiveCall(DestSeqs, SrcSeqs)
    \/ LoopBody
    \/ LoopExit

Spec == Init /\ [][Next]_vars

\* the sequence copies over the inputs of the liveness specification
LiveNext ==
    \/ CappedCall(LiveDestSeqs, LiveSrcSeqs, 0 .. MaxCopy)
    \/ ExhaustiveCall(LiveDestSeqs, LiveSrcSeqs)
    \/ LoopBody
    \/ LoopExit

\* the call runs on one thread without suspension: an enabled step is taken
FairSpec == Init /\ [][LiveNext]_vars /\ WF_vars(LiveNext)

\* ---------------------------------------------------------------- properties
\* total_size(seq): the number of bytes of the logical stream of seq
TotalSize(seq) == Len(Stream(InitMem, seq))

CurSrc == src[src_iter]

CurDest == dest[dest_iter]

\* the top of a loop iteration: the loop condition has just held
AtLoopTop == pc = "test" /\ WhileCond(dest, src, Cur)

\* C1: when the sequence copy has returned n, the first n bytes of the
\* destination's logical stream equal the first n bytes the source's logical
\* stream held before the call, in the same order.
C1_ContentFidelity ==
    (pc = "done" /\ kind # "pair") =>
        /\ ret <= TotalSize(dest)
        /\ ret <= TotalSize(src)
        /\ Take(Stream(mem, dest), ret) = Take(Stream(InitMem, src), ret)

\* a copy of at least three bytes across views split differently on both sides
C1_Witness ==
    /\ pc = "done" /\ kind = "capped"
    /\ Len(src) = 3 /\ Len(dest) = 2
    /\ src[1].size = 2 /\ src[2].size = 1 /\ src[3].size = 2
    /\ dest[1].size = 1 /\ dest[2].size = 2
    /\ ret = 3
    /\ Take(Stream(mem, dest), ret) = Take(Stream(InitMem, src), ret)

\* C2: the size-capped sequence copy returns exactly the minimum of the
\* destination's total size, the source's total size and max_copy.
C2_ReturnsMin ==
    (pc = "done" /\ kind = "capped") =>
        ret = Min(TotalSize(dest), Min(TotalSize(src), max_copy))

\* the quota is what stops a copy that spans several views on both sides
C2_Witness ==
    /\ pc = "done" /\ kind = "capped"
    /\ ret = max_copy /\ ret >= 3
    /\ max_copy < TotalSize(dest) /\ max_copy < TotalSize(src)
    /\ src_offset > 0

\* C3: the exhaustive copy returns exactly the minimum of the two total
\* sizes, so all of the source was copied or all of the destination written,
\* and it returns the source's total size when the destination is no smaller.
C3_Exhaustive ==
    (pc = "done" /\ kind = "exhaustive") =>
        /\ ret = Min(TotalSize(dest), TotalSize(src))
        /\ (ret = TotalSize(src) \/ ret = TotalSize(dest))
        /\ (TotalSize(dest) >= TotalSize(src) => ret = TotalSize(src))

\* an exhaustive copy of a source of several views into a larger destination
C3_Witness ==
    /\ pc = "done" /\ kind = "exhaustive"
    /\ Len(src) >= 2 /\ Len(dest) >= 2
    /\ TotalSize(dest) > TotalSize(src)
    /\ ret = TotalSize(src) /\ ret >= 3

\* C4: a copy that returned n leaves the destination's logical stream from
\* position n on as it was, leaves the source's bytes as they were, and
\* leaves every byte outside the destination views as it was.
C4_Frame ==
    pc = "done" =>
        /\ \A i \in (ret + 1) .. TotalSize(dest) :
               Stream(mem, dest)[i] = Stream(InitMem, dest)[i]
        /\ Stream(mem, src) = Stream(InitMem, src)
        /\ \A a \in Addr \ SeqAddrs(dest) : mem[a] = InitMem[a]

\* a copy that stopped inside a destination view and did change the memory
C4_Witness ==
    /\ pc = "done" /\ kind = "capped"
    /\ ret >= 2 /\ ret < TotalSize(dest)
    /\ dest_offset > 0
    /\ mem # InitMem
    /\ \A a \in Addr \ SeqAddrs(dest) : mem[a] = InitMem[a]

\* C5: the copy returns the same count and leaves the same destination
\* logical bytes as the copy over the same sequences with their zero-length
\* views removed.
C5_ZeroLengthRobust ==
    (pc = "done" /\ kind # "pair") =>
        LET r == SeqCopy(InitMem, StripEmpty(dest), StripEmpty(src), max_copy)
        IN  /\ ret = r.total_copied
            /\ Stream(mem, dest) = Stream(r.mem, StripEmpty(dest))

\* leading and consecutive empty views in the source, a leading one in the
\* destination
C5_Witness ==
    /\ pc = "done" /\ kind = "capped"
    /\ Len(src) = 3 /\ src[1].size = 0 /\ src[2].size = 0 /\ src[3].size = 2
    /\ Len(dest) = 2 /\ dest[1].size = 0 /\ dest[2].size = 2
    /\ ret = 2

\* C6: the single-view copy returns n = min(source size, destination size,
\* max) and the first n bytes of the destination equal the first n bytes of
\* the source.
C6_PairCopy ==
    (pc = "done" /\ kind = "pair") =>
        /\ ret = Min(src[1].size, Min(dest[1].size, max_copy))
        /\ \A i \in 0 .. (ret - 1) : mem[dest[1].data + i] = InitMem[src[1].data + i]

\* the destination is the smallest of the three bounds, as in a 5-byte
\* destination for a longer source
C6_Witness ==
    /\ pc = "done" /\ kind = "pair"
    /\ dest[1].size = 5 /\ src[1].size = 9 /\ max_copy = 6
    /\ ret = 5
    /\ \A i \in 0 .. 4 : mem[dest[1].data + i] = InitMem[src[1].data + i]

\* C7: the sequence copy loop eventually exits, and every iteration advances
\* one of the two iterators or brings the remaining quota to 0.
C7_Terminates ==
    /\ <>(pc = "done")
    /\ [][(AtLoopTop /\ pc' = "test") =>
             \/ src_iter' = src_iter + 1
             \/ dest_iter' = dest_iter + 1
             \/ remaining_to_copy' = 0]_vars

\* a copy that returned after meeting empty current buffers on both sides
\* with quota left
C7_Witness ==
    /\ pc = "done" /\ kind = "capped"
    /\ Len(src) >= 2 /\ Len(dest) >= 2
    /\ src[1].size = 0 /\ dest[1].size = 0
    /\ max_copy > 0 /\ ret > 0

\* the inputs the sequence copy returns 0 for without looping
Degenerate == Len(src) = 0 \/ Len(dest) = 0 \/ max_copy = 0

\* C8: with an empty source sequence, an empty destination sequence or
\* max_copy = 0 the first test of the loop condition fails: the copy returns
\* 0 and the memory is as it was before the call.
C8_Degenerate ==
    [][(pc = "test" /\ Degenerate) =>
          (pc' = "done" /\ ret' = 0 /\ mem' = InitMem)]_vars

\* max_copy = 0 with non-empty source and destination
C8_Witness ==
    /\ pc = "done" /\ kind = "capped"
    /\ max_copy = 0 /\ TotalSize(src) > 0 /\ TotalSize(dest) > 0
    /\ ret = 0 /\ mem = InitMem

\* C9 as stated: at the top of every loop iteration the offset of each side
\* is strictly less than the size of that side's current buffer.
C9_Original ==
    AtLoopTop => (src_offset < CurSrc.size /\ dest_offset < CurDest.size)

\* C9: at the top of every loop iteration the offset of each side is
\* strictly less than the size of that side's current buffer, unless that
\* buffer is zero-length, and then the offset is 0.
C9_OffsetBelowSize ==
    AtLoopTop =>
        /\ (src_offset < CurSrc.size \/ (CurSrc.size = 0 /\ src_offset = 0))
        /\ (dest_offset < CurDest.size \/ (CurDest.size = 0 /\ dest_offset = 0))

\* the top of an iteration that finds the source part-way into its second
\* buffer and an empty buffer current in the destination
C9_Witness ==
    /\ AtLoopTop
    /\ src_iter = 2 /\ src_offset = 1 /\ CurSrc.size = 2
    /\ dest_iter = 2 /\ dest_offset = 0 /\ CurDest.size = 0

\* what one loop iteration does to the cursor (it, off) of a side whose
\* current buffer has the given size, n bytes having been copied: the
\* iterator advances exactly when the offset after the step is the full size
\* of the buffer; the offset of an advancing side is reset to 0, that of a
\* side that stays is its old value plus n, below the size of the buffer
CursorStep(it, off, itN, offN, size, n) ==
    /\ (itN = it + 1) <=> (off + n = size)
    /\ itN = it + 1 => offN = 0
    /\ itN # it + 1 => (itN = it /\ offN = off + n /\ offN < size)

\* C10: in every state the offset of a side whose iterator is not at the end
\* is at most the size of the buffer it points to and remove_prefix's
\* assertion has not failed; and in every iteration a side's iterator
\* advances, and its offset is reset to 0, exactly when the offset after the
\* step equals the full size of its current buffer.
C10_CursorInvariant ==
    /\ [](/\ pc # "abort"
          /\ (src_iter <= Len(src) => src_offset <= CurSrc.size)
          /\ (dest_iter <= Len(dest) => dest_offset <= CurDest.size))
    /\ [][AtLoopTop =>
            LET n == total_copied' - total_copied
            IN  /\ CursorStep(src_iter, src_offset, src_iter', src_offset',
                              CurSrc.size, n)
                /\ CursorStep(dest_iter, dest_offset, dest_iter', dest_offset',
                              CurDest.size, n)]_vars

\* after an iteration that advanced the destination and left the source
\* inside its first buffer, and one that advanced the source and left the
\* destination inside its second
C10_Witness ==
    /\ pc = "test"
    /\ Len(src) >= 2 /\ Len(dest) = 2
    /\ src[1].size = 2 /\ dest[1].size = 1 /\ dest[2].size = 2
    /\ src_iter = 2 /\ src_offset = 0
    /\ dest_iter = 2 /\ dest_offset = 1
    /\ total_copied = 2

\* C11: when the destination view and the source view of a single-view copy
\* start at the same address, the copy returns min(source size, destination
\* size, max) and leaves the contents of the memory unchanged.
C11_SameRegion ==
    (pc = "done" /\ kind = "pair" /\ dest[1].data = src[1].data) =>
        /\ ret = Min(src[1].size, Min(dest[1].size, max_copy))
        /\ mem = InitMem

\* a copy of several bytes between views of different sizes on one address
C11_Witness ==
    /\ pc = "done" /\ kind = "pair"
    /\ dest[1].data = src[1].data
    /\ dest[1].size = 4 /\ src[1].size = 6 /\ max_copy = 5
    /\ ret = 4
    /\ mem = InitMem

====
